---- MODULE Spec2Model ----
(***************************************************************************)
(* Model of the SaaS backend of src/main.py: the FastAPI handlers signup,  *)
(* login, get_settings, update_settings and get_dashboard running over the *)
(* hosted store (tables companies and users).  Every store call of a       *)
(* handler is one atomic step; signup, the only handler that issues more   *)
(* than one mutating store call, is a process that other requests can      *)
(* interleave with between its store calls.                                *)
(***************************************************************************)
EXTENDS Integers, Sequences, FiniteSets, TLC

VARIABLES companies, users, nextCompanyId, nextUserId, uniqueEmail, sg, last

vars == <<companies, users, nextCompanyId, nextUserId, uniqueEmail, sg, last>>

(* ------------------------------ bounds --------------------------------- *)

\* number of signup requests that may be in flight or finished
MaxSignups == 2

Signups == 1..MaxSignups

Emails == {"a@x.io", "b@x.io"}

Passwords == {"pw1", "pw2"}

CompanyNames == {"Acme"}

\* Python's None in a nullable column or field
NULL == "None"

(* -------------------------- program constants -------------------------- *)

HTTP_200_OK == 200

HTTP_400_BAD_REQUEST == 400

HTTP_401_UNAUTHORIZED == 401

HTTP_404_NOT_FOUND == 404

HTTP_500_INTERNAL_SERVER_ERROR == 500

(* --------------------------- str() and int() --------------------------- *)

DigitChars == <<"0", "1", "2", "3", "4", "5", "6", "7", "8", "9">>

RECURSIVE Str(_)
\* str(n) of a non-negative integer: its decimal digits
Str(n) == IF n < 10 THEN <<DigitChars[n + 1]>>
          ELSE Str(n \div 10) \o <<DigitChars[(n % 10) + 1]>>

DigitValue(ch) == (CHOOSE i \in 1..10 : DigitChars[i] = ch) - 1

\* int(s) raises ValueError unless s is a non-empty digit string
IntRaises(s) == Len(s) = 0 \/ \E i \in 1..Len(s) : \A k \in 1..10 : DigitChars[k] # s[i]

RECURSIVE ParseInt(_)
\* int(s) of a digit string
ParseInt(s) == IF Len(s) = 1 THEN DigitValue(s[1])
          ELSE 10 * ParseInt(SubSeq(s, 1, Len(s) - 1)) + DigitValue(s[Len(s)])

\* the {company_id} path parameters tried: the first id the store assigns, one
\* it never assigns, and a non-numeric one
PathIds == {Str(1), Str(MaxSignups + 1), <<"x">>}

(* ------------------------------- bcrypt -------------------------------- *)

\* bcrypt.gensalt(): a fresh salt for every call, here the call's own number
GenSalt(p) == Str(p)

\* bcrypt.hashpw(password, salt).decode(): the salt is embedded in the hash
HashPw(password, salt) == <<"$2b$", salt, password>>

\* bcrypt.checkpw raises on a stored hash that is not a bcrypt hash
CheckPwRaises(stored) == Len(stored) # 3 \/ stored[1] # "$2b$"

\* bcrypt.checkpw: hash the candidate with the stored salt and compare
CheckPw(password, stored) == HashPw(password, stored[2]) = stored

(* ------------------------------ the store ------------------------------ *)

StoreErrorText == "connection to store failed"

UniqueViolationText == "duplicate key value violates unique constraint users_email_key"

\* the store rejects a users row whose email is taken, when the schema says so
EmailUniqueViolation(rows, email) ==
    uniqueEmail /\ \E u \in rows : u.email = email

\* .select(..).eq("email", email).maybe_single().execute(): no row gives no
\* data, one row gives the row, several rows (or a store fault) raise
SelectUserByEmail(rows, email, fault) ==
    LET hit == {u \in rows : u.email = email} IN
    IF fault \/ Cardinality(hit) > 1
      THEN [raised |-> TRUE, data |-> <<>>]
      ELSE [raised |-> FALSE,
            data |-> IF hit = {} THEN <<>> ELSE <<CHOOSE u \in hit : TRUE>>]

\* .select("*").eq("id", id).maybe_single().execute() on companies
SelectCompanyById(rows, id, fault) ==
    LET hit == {c \in rows : c.id = id} IN
    IF fault \/ Cardinality(hit) > 1
      THEN [raised |-> TRUE, data |-> <<>>]
      ELSE [raised |-> FALSE,
            data |-> IF hit = {} THEN <<>> ELSE <<CHOOSE c \in hit : TRUE>>]

\* .insert(row).select().execute(): outcome "ok" stores the row under the next
\* id and returns it, "raise" and "empty" store nothing
InsertRow(rows, nextId, row, outcome) ==
    LET new == [row EXCEPT !.id = nextId] IN
    IF outcome = "ok"
      THEN [raised |-> FALSE, text |-> "", data |-> <<new>>,
            rows |-> rows \cup {new}, nextId |-> nextId + 1]
      ELSE [raised |-> (outcome = "raise"),
            text |-> IF outcome = "raise" THEN StoreErrorText ELSE "",
            data |-> <<>>, rows |-> rows, nextId |-> nextId]

InsertUserRow(rows, nextId, row, outcome) ==
    IF outcome = "ok" /\ EmailUniqueViolation(rows, row.email)
      THEN [raised |-> TRUE, text |-> UniqueViolationText, data |-> <<>>,
            rows |-> rows, nextId |-> nextId]
      ELSE InsertRow(rows, nextId, row, outcome)

\* variant: the delete without its .eq filter
DeleteCompanyUnfiltered(rows, id) == {}

\* variant: a delete whose filter matches no row
DeleteCompanyNothing(rows, id) == rows

\* supabase.table("companies").delete().eq("id", company_id).execute()
DeleteCompany(rows, id) == {c \in rows : c.id # id}

(* ------------------------------ responses ------------------------------ *)

NoResponse == [status |-> 0, detail |-> <<>>]

\* raise HTTPException(status_code, detail)
HTTPException(code, detail) == [status |-> code, detail |-> detail]

\* an exception no handler catches: the framework answers 500 with its own body
Unhandled == [status |-> HTTP_500_INTERNAL_SERVER_ERROR,
              detail |-> <<"Internal Server Error">>]

\* str(e) of the HTTPException raised inside signup's try block
StrHTTPException(e) == "500: " \o e.detail[1]

(* ------------------------------- signup -------------------------------- *)

IdleSignup ==
    [pc |-> "start", email |-> "", password |-> "", company_name |-> "",
     password_hash |-> <<>>, company_id |-> 0, err |-> "",
     check |-> "none", company_insert |-> "none", user_insert |-> "none",
     cleanup |-> "none",
     result |-> NoResponse]

\* variant: the email check dropped
EmailTakenNever(existing_user) == FALSE

\* line 257: getattr(existing_user, "data", None)
EmailTaken(existing_user) == existing_user.data # <<>>

\* lines 248-267: the email check, then the hash
SignupCheck(p, email, password, name, fault) ==
    /\ sg[p].pc = "start"
    /\ \A q \in Signups : q < p => sg[q].pc # "start"   \* numbered as they arrive
    /\ LET existing_user == SelectUserByEmail(users, email, fault)
           req == [sg[p] EXCEPT !.email = email, !.password = password,
                                !.company_name = name,
                                !.check = IF existing_user.raised THEN "raise"
                                          ELSE "ok"]
       IN  sg' = [sg EXCEPT ![p] =
                IF existing_user.raised
                  THEN [req EXCEPT !.pc = "done", !.result = Unhandled]
                ELSE IF EmailTaken(existing_user)
                  THEN [req EXCEPT !.pc = "done",
                          !.result = HTTPException(HTTP_400_BAD_REQUEST,
                                        <<"Email already registered.">>)]
                ELSE [req EXCEPT !.pc = "hashed",
                          !.password_hash = HashPw(password, GenSalt(p))]]
    /\ UNCHANGED <<companies, users, nextCompanyId, nextUserId, uniqueEmail, last>>

\* lines 269-292: the company insert
SignupCompanyRow(name) ==
    [id |-> 0, name |-> name, shopify_domain |-> NULL, api_key |-> NULL,
     access_token |-> NULL]

\* line 286: not company_data or len(company_data) == 0
CompanyInsertFailed(ins) == Len(ins.data) = 0

SignupCreateCompany(p, outcome) ==
    /\ sg[p].pc = "hashed"
    /\ LET ins == InsertRow(companies, nextCompanyId,
                            SignupCompanyRow(sg[p].company_name), outcome)
           req == [sg[p] EXCEPT !.company_insert = outcome]
       IN  /\ companies' = ins.rows
           /\ nextCompanyId' = ins.nextId
           /\ sg' = [sg EXCEPT ![p] =
                IF ins.raised
                  THEN [req EXCEPT !.pc = "done", !.result = Unhandled]
                ELSE IF CompanyInsertFailed(ins)
                  THEN [req EXCEPT !.pc = "done",
                          !.result = HTTPException(HTTP_500_INTERNAL_SERVER_ERROR,
                                        <<"Failed to create company.">>)]
                ELSE [req EXCEPT !.pc = "company_created",
                          !.company_id = ins.data[1].id]]
    /\ UNCHANGED <<users, nextUserId, uniqueEmail, last>>

\* lines 298-304: the users row signup inserts
SignupUserRow(email, password_hash, company_id) ==
    [id |-> 0, email |-> email, password_hash |-> password_hash,
     company_id |-> company_id]

\* lines 328-330
SignupResponse(user_data, company_id) ==
    [status |-> HTTP_200_OK, detail |-> <<>>,
     userId |-> Str(user_data[1].id), companyId |-> Str(company_id)]

\* lines 294-317 and 328-330: the user insert
SignupCreateUser(p, outcome) ==
    /\ sg[p].pc = "company_created"
    /\ LET ins == InsertUserRow(users, nextUserId,
                     SignupUserRow(sg[p].email, sg[p].password_hash,
                                   sg[p].company_id), outcome)
           req == [sg[p] EXCEPT !.user_insert =
                       IF ins.raised THEN "raise" ELSE outcome]
           no_row == HTTPException(HTTP_500_INTERNAL_SERVER_ERROR,
                                   <<"Failed to create user.">>)
       IN  /\ users' = ins.rows
           /\ nextUserId' = ins.nextId
           /\ sg' = [sg EXCEPT ![p] =
                IF ins.raised
                  THEN [req EXCEPT !.pc = "cleanup",
                                   !.err = ins.text]
                ELSE IF Len(ins.data) = 0
                  THEN [req EXCEPT !.pc = "cleanup",
                                   !.err = StrHTTPException(no_row)]
                ELSE [req EXCEPT !.pc = "done",
                          !.result = SignupResponse(ins.data, sg[p].company_id)]]
    /\ UNCHANGED <<companies, nextCompanyId, uniqueEmail, last>>

\* variant: the failure reported with the success status
UserCreationFailedOK(err) ==
    [status |-> HTTP_200_OK, detail |-> <<"Failed to create user: ", err>>]

\* lines 323-326
UserCreationFailed(err) ==
    HTTPException(HTTP_500_INTERNAL_SERVER_ERROR, <<"Failed to create user: ", err>>)

\* variant: the cleanup aimed at the newest company instead of its own
CleanupTargetLatest(req) == nextCompanyId - 1

\* line 320: .eq("id", company_id)
CleanupTarget(req) == req.company_id

\* lines 318-326: the best-effort delete of the company, then the error
SignupCleanup(p, fault) ==
    /\ sg[p].pc = "cleanup"
    /\ companies' = IF fault THEN companies
                    ELSE DeleteCompany(companies, CleanupTarget(sg[p]))
    /\ sg' = [sg EXCEPT ![p] =
                [sg[p] EXCEPT !.pc = "done",
                              !.cleanup = IF fault THEN "raise" ELSE "ok",
                              !.result = UserCreationFailed(sg[p].err)]]
    /\ UNCHANGED <<users, nextCompanyId, nextUserId, uniqueEmail, last>>

(* -------------------------------- login -------------------------------- *)

\* variant: an unknown email answered differently from a wrong password
LoginNotFound404 ==
    HTTPException(HTTP_404_NOT_FOUND, <<"No account with this email.">>)

\* lines 196-200
LoginNotFound ==
    HTTPException(HTTP_401_UNAUTHORIZED, <<"Invalid email or password.">>)

\* variant: the two ids exchanged
LoginResponseSwapped(user_data) ==
    [status |-> HTTP_200_OK, detail |-> <<>>,
     userId |-> Str(user_data.company_id), companyId |-> Str(user_data.id)]

\* lines 232-235
LoginResponse(user_data) ==
    [status |-> HTTP_200_OK, detail |-> <<>>,
     userId |-> Str(user_data.id), companyId |-> Str(user_data.company_id)]

\* lines 185-235
LoginResult(rows, email, password, fault) ==
    LET user_result == SelectUserByEmail(rows, email, fault) IN
    IF user_result.raised THEN Unhandled
    ELSE IF user_result.data = <<>> THEN LoginNotFound
    ELSE LET user_data == user_result.data[1]
             stored_password_hash == user_data.password_hash
         IN  IF stored_password_hash = <<>>
               THEN HTTPException(HTTP_500_INTERNAL_SERVER_ERROR,
                                  <<"User account has no password set.">>)
             ELSE IF CheckPwRaises(stored_password_hash)
               THEN HTTPException(HTTP_500_INTERNAL_SERVER_ERROR,
                                  <<"Error verifying password.">>)
             ELSE IF ~CheckPw(password, stored_password_hash)
               THEN HTTPException(HTTP_401_UNAUTHORIZED,
                                  <<"Invalid email or password.">>)
             ELSE LoginResponse(user_data)

login(email, password, fault) ==
    /\ last' = [op |-> "login",
                key |-> <<email, IF \E u \in users : u.email = email
                                   THEN "registered" ELSE "unknown">>,
                resp |-> LoginResult(users, email, password, fault)]
    /\ UNCHANGED <<companies, users, nextCompanyId, nextUserId, uniqueEmail, sg>>

(* ------------------------ settings and dashboard ----------------------- *)

\* lines 119-126 and 166-173 (created_at is not modelled)
CompanyResponse(data) ==
    [status |-> HTTP_200_OK, detail |-> <<>>, id |-> data.id, name |-> data.name,
     shopify_domain |-> data.shopify_domain, api_key |-> data.api_key,
     access_token |-> data.access_token]

\* f"Company with ID {company_id} not found."
CompanyNotFound(company_id) ==
    HTTPException(HTTP_404_NOT_FOUND,
                  <<"Company with ID ", company_id, " not found.">>)

\* lines 94-126
GetSettingsResult(rows, company_id, fault) ==
    IF IntRaises(company_id) THEN Unhandled
    ELSE LET result == SelectCompanyById(rows, ParseInt(company_id), fault) IN
         IF result.raised THEN Unhandled
         ELSE IF result.data = <<>> THEN CompanyNotFound(company_id)
         ELSE CompanyResponse(result.data[1])

get_settings(company_id, fault) ==
    /\ last' = [op |-> "get_settings", key |-> company_id,
                resp |-> GetSettingsResult(companies, company_id, fault)]
    /\ UNCHANGED <<companies, users, nextCompanyId, nextUserId, uniqueEmail, sg>>

\* the ShopifyCredentials payloads tried (api_secret is accepted and unused)
Payloads ==
    {[shop_domain |-> "shop.example", access_token |-> "tok", api_key |-> "key"],
     [shop_domain |-> NULL, access_token |-> NULL, api_key |-> NULL]}

\* variant: api_key and access_token exchanged
UpdateDataSwapped(shopify) ==
    [shopify_domain |-> shopify.shop_domain, api_key |-> shopify.access_token,
     access_token |-> shopify.api_key]

\* lines 142-146
UpdateData(shopify) ==
    [shopify_domain |-> shopify.shop_domain, api_key |-> shopify.api_key,
     access_token |-> shopify.access_token]

\* .update(update_data).eq("id", id).select().execute(): the rows after the
\* update and the updated rows
UpdateCompanies(rows, update_data, id) ==
    LET upd(c) == [c EXCEPT !.shopify_domain = update_data.shopify_domain,
                            !.api_key = update_data.api_key,
                            !.access_token = update_data.access_token]
        hit == {c \in rows : c.id = id}
    IN  [rows |-> {IF c.id = id THEN upd(c) ELSE c : c \in rows},
         data |-> IF hit = {} THEN <<>> ELSE <<upd(CHOOSE c \in hit : TRUE)>>]

\* lines 129-173: the rows afterwards and the response
UpdateSettingsResult(rows, company_id, shopify, fault) ==
    IF IntRaises(company_id) \/ fault THEN [rows |-> rows, resp |-> Unhandled]
    ELSE LET result == UpdateCompanies(rows, UpdateData(shopify),
                                       ParseInt(company_id)) IN
         IF Len(result.data) = 0
           THEN [rows |-> result.rows, resp |-> CompanyNotFound(company_id)]
           ELSE [rows |-> result.rows, resp |-> CompanyResponse(result.data[1])]

update_settings(company_id, shopify, fault) ==
    LET out == UpdateSettingsResult(companies, company_id, shopify, fault) IN
    /\ companies' = out.rows
    /\ last' = [op |-> "update_settings", key |-> company_id, resp |-> out.resp]
    /\ UNCHANGED <<users, nextCompanyId, nextUserId, uniqueEmail, sg>>

\* the dashboard_data table has no writer in this program
DashboardData == {}

\* lines 47-91
GetDashboardResult(rows, company_id, fault) ==
    IF IntRaises(company_id) THEN Unhandled
    ELSE LET company_result == SelectCompanyById(rows, ParseInt(company_id), fault)
             found == {d \in DashboardData : d.company_id = ParseInt(company_id)}
         IN  IF company_result.raised THEN Unhandled
             ELSE IF company_result.data = <<>> THEN CompanyNotFound(company_id)
             ELSE [status |-> HTTP_200_OK, detail |-> <<>>,
                   company_id |-> company_id,
                   name |-> company_result.data[1].name,
                   data |-> IF found = {} THEN NULL ELSE "data_json"]

get_dashboard(company_id, fault) ==
    /\ last' = [op |-> "get_dashboard", key |-> company_id,
                resp |-> GetDashboardResult(companies, company_id, fault)]
    /\ UNCHANGED <<companies, users, nextCompanyId, nextUserId, uniqueEmail, sg>>

(* ---------------------------- specification ---------------------------- *)

\* no request has been answered yet
NoRequest == [op |-> "none", key |-> <<>>, resp |-> NoResponse]

InitStore ==
    /\ companies = {}
    /\ users = {}
    /\ nextCompanyId = 1
    /\ nextUserId = 1
    /\ sg = [p \in Signups |-> IdleSignup]
    /\ last = NoRequest

\* the users table has the unique email of the data model
Init == InitStore /\ uniqueEmail = TRUE

\* the users table may or may not have it
InitAnyStore == InitStore /\ uniqueEmail \in BOOLEAN

InsertOutcomes == {"ok", "raise", "empty"}

Next ==
    \/ \E p \in Signups, email \in Emails, password \in Passwords,
          name \in CompanyNames, fault \in BOOLEAN :
           SignupCheck(p, email, password, name, fault)
    \/ \E p \in Signups, outcome \in InsertOutcomes : SignupCreateCompany(p, outcome)
    \/ \E p \in Signups, outcome \in InsertOutcomes : SignupCreateUser(p, outcome)
    \/ \E p \in Signups, fault \in BOOLEAN : SignupCleanup(p, fault)
    \/ \E email \in Emails, password \in Passwords, fault \in BOOLEAN :
           login(email, password, fault)
    \/ \E company_id \in PathIds, fault \in BOOLEAN : get_settings(company_id, fault)
    \/ \E company_id \in PathIds, shopify \in Payloads, fault \in BOOLEAN :
           update_settings(company_id, shopify, fault)
    \/ \E company_id \in PathIds, fault \in BOOLEAN : get_dashboard(company_id, fault)

Spec == Init /\ [][Next]_vars

SpecAnyStore == InitAnyStore /\ [][Next]_vars

(* ------------------------------- claims -------------------------------- *)

Done(p) == sg[p].pc = "done"

CompanyExists(id) == \E c \in companies : c.id = id

UsersOf(email) == {u \in users : u.email = email}

\* C1: in every reachable state every users row refers to a companies row that
\* exists, whatever the interleaving of signup, login and settings calls and
\* whatever inserts fail and cleanups run.
C1_EveryUserHasItsCompany ==
    \A u \in users : CompanyExists(u.company_id)

\* a user exists while another signup's cleanup has deleted its own company
C1_Witness ==
    /\ users # {}
    /\ \E p \in Signups : Done(p) /\ sg[p].user_insert \in {"raise", "empty"}
                          /\ sg[p].cleanup = "ok"

\* C2: a signup whose email check finds a users row answers 400 'Email already
\* registered.' in that very step, has issued no insert and no delete, leaves
\* both tables as they were, and afterwards exactly one users row has that
\* email and its company exists.
C2_DuplicateEmailRejectedBeforeMutation ==
    [][\A p \in Signups :
         (/\ sg[p].pc = "start"
          /\ sg'[p].pc # "start"
          /\ sg'[p].check = "ok"
          /\ UsersOf(sg'[p].email) # {})
         => /\ sg'[p].pc = "done"
            /\ sg'[p].result = [status |-> HTTP_400_BAD_REQUEST,
                                detail |-> <<"Email already registered.">>]
            /\ sg'[p].company_insert = "none"
            /\ sg'[p].user_insert = "none"
            /\ sg'[p].cleanup = "none"
            /\ companies' = companies
            /\ users' = users
            /\ nextCompanyId' = nextCompanyId
            /\ nextUserId' = nextUserId
            /\ Cardinality({u \in users' : u.email = sg'[p].email}) = 1
            /\ \A u \in users' : u.email = sg'[p].email =>
                   \E c \in companies' : c.id = u.company_id]_vars

\* a signup was answered 400 while the first signup of that email stands
C2_Witness ==
    \E p, q \in Signups :
        /\ p # q
        /\ Done(p) /\ sg[p].result.status = HTTP_400_BAD_REQUEST
        /\ Done(q) /\ sg[q].result.status = HTTP_200_OK
        /\ sg[p].email = sg[q].email

\* C3: once the company insert has succeeded and the user insert raises or
\* returns no row, the next step of the signup is the delete; that step removes
\* the company the signup created and no other row, a failing delete changes
\* nothing and is not reported, and the signup ends with 500 'Failed to create
\* user: ...' either way.
C3_CleanupAfterUserFailure ==
    [][\A p \in Signups :
         /\ (sg[p].pc = "company_created" /\ sg'[p] # sg[p]
             /\ sg'[p].user_insert \in {"raise", "empty"})
            => (sg'[p].pc = "cleanup" /\ users' = users /\ companies' = companies)
         /\ (sg[p].pc = "cleanup" /\ sg'[p].pc # "cleanup")
            => /\ sg'[p].pc = "done"
               /\ sg'[p].cleanup \in {"ok", "raise"}
               /\ sg'[p].result = [status |-> HTTP_500_INTERNAL_SERVER_ERROR,
                                   detail |-> <<"Failed to create user: ", sg[p].err>>]
               /\ sg'[p].cleanup = "ok" =>
                     companies' = {c \in companies : c.id # sg[p].company_id}
               /\ sg'[p].cleanup = "raise" => companies' = companies
               /\ users' = users
         /\ (sg'[p].pc = "done" /\ sg'[p].company_insert = "ok"
             /\ sg'[p].user_insert \in {"raise", "empty"})
            => /\ sg'[p].cleanup \in {"ok", "raise"}
               /\ sg'[p].result.status = HTTP_500_INTERNAL_SERVER_ERROR
               /\ sg'[p].cleanup = "ok" =>
                     ~ \E c \in companies' : c.id = sg'[p].company_id]_vars

\* a cleanup removed its company while another company stayed
C3_Witness ==
    \E p \in Signups :
        /\ Done(p) /\ sg[p].company_insert = "ok" /\ sg[p].cleanup = "ok"
        /\ ~ CompanyExists(sg[p].company_id)
        /\ companies # {}

\* C4: when the store enforces unique emails, at most one users row has a
\* given email and at most one signup with that email is answered 200, however
\* the signups interleave; and in any store no two users rows share a company.
\* (Without the constraint two signups of one email both succeed: the witness.)
C4_UniqueStoreSerializesSignups ==
    /\ uniqueEmail =>
         \A e \in Emails :
            /\ Cardinality(UsersOf(e)) <= 1
            /\ Cardinality({p \in Signups : sg[p].email = e
                              /\ sg[p].result.status = HTTP_200_OK}) <= 1
    /\ \A u1, u2 \in users : u1 # u2 => u1.company_id # u2.company_id

\* no constraint: two signups of one email both answered 200, two users rows
\* with that email, each with its own company
C4_Witness ==
    /\ ~ uniqueEmail
    /\ \E p, q \in Signups :
         /\ p # q /\ sg[p].email = sg[q].email
         /\ sg[p].result.status = HTTP_200_OK
         /\ sg[q].result.status = HTTP_200_OK
         /\ sg[p].result.companyId # sg[q].result.companyId
         /\ Cardinality(UsersOf(sg[p].email)) = 2

\* C5: a signup answered 200 returned a non-empty userId and companyId, and a
\* login with the same email and password whose lookup succeeds is answered
\* 200 with the same userId and the same companyId, in every later state.
C5_SignupThenLogin ==
    \A p \in Signups :
        sg[p].result.status = HTTP_200_OK =>
            /\ Len(sg[p].result.userId) > 0
            /\ Len(sg[p].result.companyId) > 0
            /\ LoginResult(users, sg[p].email, sg[p].password, FALSE)
                 = [status |-> HTTP_200_OK, detail |-> <<>>,
                    userId |-> sg[p].result.userId,
                    companyId |-> sg[p].result.companyId]

\* a login after a signup was answered with the signup's ids, which differ
C5_Witness ==
    \E p \in Signups :
        /\ sg[p].result.status = HTTP_200_OK
        /\ sg[p].result.userId # sg[p].result.companyId
        /\ last.op = "login" /\ last.key[1] = sg[p].email
        /\ last.resp.status = HTTP_200_OK
        /\ last.resp.userId = sg[p].result.userId
        /\ last.resp.companyId = sg[p].result.companyId

InvalidCredentials ==
    [status |-> HTTP_401_UNAUTHORIZED, detail |-> <<"Invalid email or password.">>]

\* C6: a login that fails on the password gets the very response the same
\* login gets from the store with that email's row removed, 401 'Invalid email
\* or password.'; and every login answered 401 carries that message.
C6_FailedLoginHidesRegistration ==
    /\ \A e \in Emails, pw \in Passwords :
         LET registered == LoginResult(users, e, pw, FALSE)
             unknown == LoginResult(users \ UsersOf(e), e, pw, FALSE)
         IN  /\ unknown = InvalidCredentials
             /\ registered.status # HTTP_200_OK => registered = unknown
    /\ (last.op = "login" /\ last.resp.status \notin {HTTP_200_OK}
        /\ last.resp # Unhandled) => last.resp = InvalidCredentials

\* a login for a registered email was answered 401
C6_Witness ==
    /\ last.op = "login"
    /\ last.key[2] = "registered"
    /\ last.resp.status = HTTP_401_UNAUTHORIZED

C8_OrphanCompanyOnlyAfterFailedCleanup ==
    \A p \in Signups :
        (/\ Done(p)
         /\ sg[p].company_insert = "ok"
         /\ CompanyExists(sg[p].company_id)
         /\ ~ \E u \in users : u.company_id = sg[p].company_id)
        => /\ sg[p].user_insert \in {"raise", "empty"}
           /\ sg[p].cleanup = "raise"

\* a finished signup left its company without a user
C8_Witness ==
    \E p \in Signups :
        /\ Done(p) /\ sg[p].cleanup = "raise"
        /\ CompanyExists(sg[p].company_id)
        /\ ~ \E u \in users : u.company_id = sg[p].company_id

StoreTexts == {StoreErrorText, UniqueViolationText}

LeaksStoreText(resp) == \E i \in DOMAIN resp.detail : resp.detail[i] \in StoreTexts

\* C9: no response, of signup or of any other handler, carries the store's
\* error text in its message.
C9_NoStoreTextInResponses ==
    /\ \A p \in Signups : ~ LeaksStoreText(sg[p].result)
    /\ ~ LeaksStoreText(last.resp)

\* C10: a signup whose company insert raises or returns no row ends with 500
\* 'Failed to create company.', without a user insert or a delete, and with no
\* row of its own in the store.
C10_CompanyInsertFailure ==
    \A p \in Signups :
        sg[p].company_insert \in {"raise", "empty"} =>
            /\ Done(p)
            /\ sg[p].result = [status |-> HTTP_500_INTERNAL_SERVER_ERROR,
                               detail |-> <<"Failed to create company.">>]
            /\ sg[p].user_insert = "none"
            /\ sg[p].cleanup = "none"
            /\ sg[p].company_id = 0

====
